---- MODULE Spec2Model ----
(***************************************************************************)
(* Relationship-prefetch planner (applyRelationshipPrefetch) of            *)
(* mcp-server/relprefetch.mjs, as found in ConceptsPage.jsx lines 277-604. *)
(* Filters, keys and clauses are TLA+ strings handled character by         *)
(* character, so that the regular expressions, the escaping and the        *)
(* String.prototype.replace substitution act as they do in the code.       *)
(***************************************************************************)
EXTENDS Integers, Sequences, FiniteSets, TLC

(***************************************************************************)
(* Characters and the character classes of the regular expressions.        *)
(***************************************************************************)
Ch(s, i) == SubSeq(s, i, i)

\* const v = ...: the value is computed once and named in what follows
With(v, F(_)) == F(v)

UpperChars == "ABCDEFGHIJKLMNOPQRSTUVWXYZ"
LowerChars == "abcdefghijklmnopqrstuvwxyz"
DigitChars == "0123456789"

UpperSet == {Ch(UpperChars, i) : i \in 1..Len(UpperChars)}
LowerSet == {Ch(LowerChars, i) : i \in 1..Len(LowerChars)}
DigitSet == {Ch(DigitChars, i) : i \in 1..Len(DigitChars)}

\* [A-Za-z_]
IdentStart == UpperSet \cup LowerSet \cup {"_"}
\* [A-Za-z0-9_], also the \w of \b and \W
WordChars == IdentStart \cup DigitSet
\* \s
SpaceChars == {" ", "\t", "\n", "\r"}

DQ == "\""
SQ == "'"

LowerOf == [c \in UpperSet |->
              Ch(LowerChars, CHOOSE i \in 1..Len(UpperChars) : Ch(UpperChars, i) = c)]

\* a per-character mapping is applied by halves, which keeps the evaluation
\* shallow on long texts
RECURSIVE toLowerCase(_)
toLowerCase(s) ==
  IF s = "" THEN ""
  ELSE IF Len(s) = 1 THEN (IF s \in UpperSet THEN LowerOf[s] ELSE s)
  ELSE LET h == Len(s) \div 2
       IN  toLowerCase(SubSeq(s, 1, h)) \o toLowerCase(SubSeq(s, h + 1, Len(s)))

\* String.prototype.trim
RECURSIVE trimStart(_)
trimStart(s) ==
  IF s # "" /\ Ch(s, 1) \in SpaceChars THEN trimStart(SubSeq(s, 2, Len(s))) ELSE s

RECURSIVE trimEnd(_)
trimEnd(s) ==
  IF s # "" /\ Ch(s, Len(s)) \in SpaceChars THEN trimEnd(SubSeq(s, 1, Len(s) - 1)) ELSE s

trim(s) == trimEnd(trimStart(s))

\* s.slice(i) with a 1-based index
Tail_(s, i) == IF i > Len(s) THEN "" ELSE SubSeq(s, i, Len(s))

\* the text of s at i..i+n-1, "" when it does not fit
Peek(s, i, n) == IF i >= 1 /\ i + n - 1 <= Len(s) THEN SubSeq(s, i, i + n - 1) ELSE ""

(***************************************************************************)
(* normalizeOp and escapeWhereString.                                      *)
(***************************************************************************)
normalizeOp(opRaw) ==
  With(toLowerCase(trim(opRaw)), LAMBDA op :
    IF op = "=" THEN "="
    ELSE IF op = "!=" THEN "!="
    ELSE IF op = "like" THEN "like"
    ELSE "=")

\* replace(/"/g, "\\\""): every double quote gets a backslash before it
RECURSIVE escapeWhereString(_)
escapeWhereString(v) ==
  IF v = "" THEN ""
  ELSE IF Len(v) = 1 THEN (IF v = DQ THEN "\\" \o DQ ELSE v)
  ELSE LET h == Len(v) \div 2
       IN  escapeWhereString(SubSeq(v, 1, h)) \o escapeWhereString(SubSeq(v, h + 1, Len(v)))

(***************************************************************************)
(* The pieces of the two clause regular expressions.                       *)
(***************************************************************************)
\* \b at the gap before position i
WordBoundary(w, i) ==
  LET before == i > 1 /\ i - 1 <= Len(w) /\ Ch(w, i - 1) \in WordChars
      after  == i >= 1 /\ i <= Len(w) /\ Ch(w, i) \in WordChars
  IN  before # after

\* greedy X*: the first position at or after i whose character is not in S
\* (the position after the text when there is none)
ScanWhile(w, i, S) ==
  IF i < 1 \/ i > Len(w) THEN i
  ELSE CHOOSE j \in i..(Len(w) + 1) :
         /\ j = Len(w) + 1 \/ Ch(w, j) \notin S
         /\ \A k \in i..(j - 1) : Ch(w, k) \in S

\* [^q]*: the first position at or after i holding the character q
\* (the position after the text when there is none)
ScanUntil(w, i, q) ==
  IF i < 1 \/ i > Len(w) THEN i
  ELSE CHOOSE j \in i..(Len(w) + 1) :
         /\ j = Len(w) + 1 \/ Ch(w, j) = q
         /\ \A k \in i..(j - 1) : Ch(w, k) # q

\* [A-Za-z_][A-Za-z0-9_]* at i: the position after it, 0 when there is none
IdentAt(w, i) ==
  IF i <= Len(w) /\ Ch(w, i) \in IdentStart THEN ScanWhile(w, i + 1, WordChars) ELSE 0

\* (=|!=|\blike\b) at i under the i flag: the position after it, 0 when none
OpAt(w, i) ==
  IF Peek(w, i, 1) = "=" THEN i + 1
  ELSE IF Peek(w, i, 2) = "!=" THEN i + 2
  ELSE IF /\ toLowerCase(Peek(w, i, 4)) = "like"
          /\ WordBoundary(w, i)
          /\ WordBoundary(w, i + 4) THEN i + 4
  ELSE 0

\* ("[^"]*"|'[^']*') at i: the position after it, 0 when none
LiteralAt(w, i) ==
  IF Peek(w, i, 1) \in {DQ, SQ}
  THEN With(ScanUntil(w, i + 1, Peek(w, i, 1)), LAMBDA k :
         IF k <= Len(w) THEN k + 1 ELSE 0)
  ELSE 0

NoMatch == [ok |-> FALSE]

\* \s*(=|!=|\blike\b)\s*("[^"]*"|'[^']*') from position j of a match begun at
\* from, whose first two groups are rel and field
ClauseTail(w, from, rel, field, j) ==
  With(ScanWhile(w, j, SpaceChars), LAMBDA o1 :
  With(OpAt(w, o1), LAMBDA o2 :
    IF o2 = 0 THEN NoMatch
    ELSE With(ScanWhile(w, o2, SpaceChars), LAMBDA l1 :
         With(LiteralAt(w, l1), LAMBDA l2 :
           IF l2 = 0 THEN NoMatch
           ELSE [ok |-> TRUE, from |-> from, to |-> l2, rel |-> rel, field |-> field,
                 op |-> SubSeq(w, o1, o2 - 1), lit |-> SubSeq(w, l1, l2 - 1)]))))

\* the detector's expression anchored at i:
\* \b([A-Za-z_][A-Za-z0-9_]*)\s*\.\s*([A-Za-z_][A-Za-z0-9_]*)\s*(op)\s*(literal)
DetectAt(w, i) ==
  IF ~WordBoundary(w, i) THEN NoMatch
  ELSE With(IdentAt(w, i), LAMBDA r2 :
    IF r2 = 0 THEN NoMatch
    ELSE With(ScanWhile(w, r2, SpaceChars), LAMBDA d1 :
      IF Peek(w, d1, 1) # "." THEN NoMatch
      ELSE With(ScanWhile(w, d1 + 1, SpaceChars), LAMBDA f1 :
           With(IdentAt(w, f1), LAMBDA f2 :
             IF f2 = 0 THEN NoMatch
             ELSE ClauseTail(w, i, SubSeq(w, i, r2 - 1), SubSeq(w, f1, f2 - 1), f2)))))

\* of the matches found at several anchors, the leftmost one
Leftmost(found) ==
  With({m \in found : m.ok}, LAMBDA ms :
    IF ms = {} THEN NoMatch ELSE CHOOSE m \in ms : \A n \in ms : m.from <= n.from)

\* re.exec from lastIndex i: the leftmost match starting at or after i
DetectExec(w, i) == Leftmost({DetectAt(w, j) : j \in i..Len(w)})

\* the inner text of a quoted literal (m[5] or m[6])
LiteralValue(lit) == SubSeq(lit, 2, Len(lit) - 1)

\* while ((m = re.exec(w))): the successive matches, left to right
RECURSIVE DetectMatches(_, _)
DetectMatches(w, i) ==
  With(DetectExec(w, i), LAMBDA m :
    IF ~m.ok THEN <<>> ELSE <<m>> \o DetectMatches(w, m.to))

\* out.push({ rel: m[1].trim(), field: m[2].trim(), op, value }) per match
PredicateOf(m) ==
  [rel |-> trim(m.rel), field |-> trim(m.field),
   op |-> normalizeOp(m.op), value |-> LiteralValue(m.lit)]

PredicatesOf(ms) == [i \in 1..Len(ms) |-> PredicateOf(ms[i])]

detectRelationshipPredicates(where) == PredicatesOf(DetectMatches(where, 1))

\* the per-predicate expression anchored at i, under the i flag:
\* \b<relName>\s*\.\s*<field>\s*(op)\s*(literal)
ClauseAt(w, i, relName, field) ==
  IF toLowerCase(Ch(w, i)) # toLowerCase(Peek(relName, 1, 1)) THEN NoMatch
  ELSE IF ~WordBoundary(w, i) THEN NoMatch
  ELSE IF toLowerCase(Peek(w, i, Len(relName))) # toLowerCase(relName) THEN NoMatch
  ELSE With(ScanWhile(w, i + Len(relName), SpaceChars), LAMBDA d1 :
    IF Peek(w, d1, 1) # "." THEN NoMatch
    ELSE With(ScanWhile(w, d1 + 1, SpaceChars), LAMBDA f1 :
      IF toLowerCase(Peek(w, f1, Len(field))) # toLowerCase(field) THEN NoMatch
      ELSE ClauseTail(w, i, SubSeq(w, i, i + Len(relName) - 1),
                      SubSeq(w, f1, f1 + Len(field) - 1), f1 + Len(field))))

\* the leftmost match starting at or after i
ClauseExec(w, i, relName, field) ==
  Leftmost({ClauseAt(w, j, relName, field) : j \in i..Len(w)})

(***************************************************************************)
(* String.prototype.replace(regexp, string): the replacement text is       *)
(* expanded by GetSubstitution; the clause expression has two groups, the  *)
(* operator ($1) and the quoted literal ($2).  The pattern made of a       *)
(* dollar sign and a grave accent (the text before the match) is left out: *)
(* that character cannot be written in a TLA+ string, so no replacement    *)
(* text of the model contains it.                                          *)
(***************************************************************************)
\* what a dollar sign followed by the characters n and n2 stands for
Expansion(n, n2, w, m) ==
  IF n = "$" THEN "$"
  ELSE IF n = "&" THEN SubSeq(w, m.from, m.to - 1)
  ELSE IF n = SQ THEN Tail_(w, m.to)
  ELSE IF n = "0" /\ n2 = "1" THEN m.op
  ELSE IF n = "0" /\ n2 = "2" THEN m.lit
  ELSE IF n = "1" THEN m.op
  ELSE IF n = "2" THEN m.lit
  ELSE "$"

\* the number of characters after the dollar sign that belong to the pattern
PatternLen(n, n2) ==
  IF n \in {"$", "&", SQ, "1", "2"} THEN 1
  ELSE IF n = "0" /\ n2 \in {"1", "2"} THEN 2
  ELSE 0

\* repl is expanded from position i on; the text up to the next dollar sign
\* is copied as it is
RECURSIVE GetSubstitution(_, _, _, _)
GetSubstitution(repl, w, m, i) ==
  IF i > Len(repl) THEN ""
  ELSE With(ScanUntil(repl, i, "$"), LAMBDA d :
    IF d > Len(repl) THEN SubSeq(repl, i, Len(repl))
    ELSE SubSeq(repl, i, d - 1) \o
         Expansion(Peek(repl, d + 1, 1), Peek(repl, d + 2, 1), w, m) \o
         GetSubstitution(repl, w, m, d + 1 + PatternLen(Peek(repl, d + 1, 1), Peek(repl, d + 2, 1))))

\* w.replace(clauseRe, repl), m being the first match of clauseRe in w: the
\* match gives way to the expanded replacement, the text is unchanged when
\* there is no match
ReplaceMatch(w, m, repl) ==
  IF ~m.ok THEN w
  ELSE SubSeq(w, 1, m.from - 1) \o GetSubstitution(repl, w, m, 1) \o Tail_(w, m.to)

(***************************************************************************)
(* JavaScript values: what JSON.parse, the transport and the configuration *)
(* files hand to the code.  Objects carry a function from property names   *)
(* to values, arrays a sequence of values.                                 *)
(***************************************************************************)
JUndefined == [t |-> "undefined"]
JNull == [t |-> "null"]
JStr(s) == [t |-> "string", v |-> s]
JNum(n) == [t |-> "number", v |-> n]
JArr(a) == [t |-> "array", v |-> a]
JObj(o) == [t |-> "object", v |-> o]

\* x?.[k]
Get(x, k) == IF x.t = "object" /\ k \in DOMAIN x.v THEN x.v[k] ELSE JUndefined

\* ToBoolean, as used by ||, !, && and filter(Boolean)
Truthy(x) ==
  CASE x.t \in {"undefined", "null"} -> FALSE
    [] x.t = "string" -> x.v # ""
    [] x.t = "number" -> x.v # 0
    [] OTHER -> TRUE

\* a || b
OrElse(a, b) == IF Truthy(a) THEN a ELSE b

RECURSIVE NatToStr(_)
NatToStr(n) ==
  IF n < 10 THEN Ch(DigitChars, n + 1)
  ELSE NatToStr(n \div 10) \o Ch(DigitChars, (n % 10) + 1)

\* String(x) for the values the model holds
ToStr(x) ==
  CASE x.t = "string" -> x.v
    [] x.t = "number" -> NatToStr(x.v)
    [] x.t = "undefined" -> "undefined"
    [] x.t = "null" -> "null"
    [] OTHER -> "[object Object]"

DigitValue(c) == (CHOOSE i \in 1..Len(DigitChars) : Ch(DigitChars, i) = c) - 1

RECURSIVE StrToNat(_)
StrToNat(s) ==
  IF s = "" THEN 0
  ELSE 10 * StrToNat(SubSeq(s, 1, Len(s) - 1)) + DigitValue(Ch(s, Len(s)))

\* Number(x) for numbers and for strings of decimal digits
ToNum(x) == IF x.t = "number" THEN x.v ELSE StrToNat(trim(ToStr(x)))

\* { ...a, ...b } on two objects: the properties of b replace those of a
Spread(a, b) ==
  JObj([k \in DOMAIN a.v \cup DOMAIN b.v |-> IF k \in DOMAIN b.v THEN b.v[k] ELSE a.v[k]])

(***************************************************************************)
(* The texts that are parsed: configuration files and transport envelopes. *)
(* JSON.parse is the table JsonTexts on the texts that are JSON and fails  *)
(* on every other text.                                                    *)
(***************************************************************************)
\* relationships.defaults.json: asset without maxKeys and without a site
\* field, location with a blank rootJoinField, and a complete entry under the
\* alias Location
DefaultsText ==
  "{\"relationships\":{\"mxapiwo\":{\"asset\":{\"relatedOs\":\"mxapiasset\",\"rootJoinField\":\"assetnum\",\"relatedKeyField\":\"assetnum\"},\"location\":{\"relatedOs\":\"mxapilocations\",\"rootJoinField\":\" \",\"relatedKeyField\":\"location\"},\"Location\":{\"relatedOs\":\"mxapilocations\",\"rootJoinField\":\"location\",\"relatedKeyField\":\"location\"}}}}"

DefaultsJson ==
  JObj([relationships |-> JObj([
    mxapiwo |-> JObj([
      asset |-> JObj([relatedOs |-> JStr("mxapiasset"), rootJoinField |-> JStr("assetnum"),
                      relatedKeyField |-> JStr("assetnum")]),
      location |-> JObj([relatedOs |-> JStr("mxapilocations"), rootJoinField |-> JStr(" "),
                         relatedKeyField |-> JStr("location")]),
      Location |-> JObj([relatedOs |-> JStr("mxapilocations"), rootJoinField |-> JStr("location"),
                         relatedKeyField |-> JStr("location")])])])])

\* relationships.<tenantId>.json: asset with maxKeys 1, nothing else
TenantText ==
  "{\"relationships\":{\"mxapiwo\":{\"asset\":{\"relatedOs\":\"mxapiasset\",\"rootJoinField\":\"assetnum\",\"relatedKeyField\":\"assetnum\",\"relatedSiteField\":\"siteid\",\"maxKeys\":1}}}}"

TenantJson ==
  JObj([relationships |-> JObj([
    mxapiwo |-> JObj([
      asset |-> JObj([relatedOs |-> JStr("mxapiasset"), rootJoinField |-> JStr("assetnum"),
                      relatedKeyField |-> JStr("assetnum"), relatedSiteField |-> JStr("siteid"),
                      maxKeys |-> JNum(1)])])])])

\* the body of an envelope whose text is a member collection
MemberText == "{\"member\":[{\"assetnum\":\"A100\"}]}"

MemberJson == JObj([member |-> JArr(<<JObj([assetnum |-> JStr("A100")])>>)])

\* the body of an envelope that is not JSON
HtmlText == "<html>502 Bad Gateway</html>"

\* a configuration file cut short while it was written
MalformedText == "{\"relationships\":{\"mxapiwo\":"

JsonTexts ==
  (DefaultsText :> DefaultsJson) @@ (TenantText :> TenantJson) @@ (MemberText :> MemberJson)

\* try { return JSON.parse(s) } catch { return null }
safeJson(s) == IF s \in DOMAIN JsonTexts THEN JsonTexts[s] ELSE JNull

\* body.member / body["rdfs:member"], unwrapping a list of one list
getOslcMembers(body) ==
  IF ~Truthy(body) \/ body.t \notin {"object", "array"} THEN <<>>
  ELSE With(IF Get(body, "member").t = "array" THEN Get(body, "member").v
            ELSE IF Get(body, "rdfs:member").t = "array" THEN Get(body, "rdfs:member").v
            ELSE <<>>,
            LAMBDA one : IF Len(one) = 1 /\ one[1].t = "array" THEN one[1].v ELSE one)

\* xs.filter(keep) for a sequence
RECURSIVE SelectTruthy(_)
SelectTruthy(xs) ==
  IF xs = <<>> THEN <<>>
  ELSE (IF Truthy(xs[1]) THEN <<xs[1]>> ELSE <<>>) \o SelectTruthy(Tail(xs))

\* buildOrBlock: `(${parts.join(" or ")})`
RECURSIVE JoinOr(_)
JoinOr(parts) ==
  IF parts = <<>> THEN ""
  ELSE IF Len(parts) = 1 THEN parts[1]
  ELSE parts[1] \o " or " \o JoinOr(Tail(parts))

buildOrBlock(rootJoinField, keys) ==
  "(" \o JoinOr([i \in 1..Len(keys) |->
                   rootJoinField \o "=" \o DQ \o escapeWhereString(keys[i]) \o DQ]) \o ")"

(***************************************************************************)
(* loadRelationshipsConfig: built-in defaults, then the defaults file,     *)
(* then the tenant file.  A file is the state of its path on disk.         *)
(***************************************************************************)
RelEntry(relatedOs, joinField) ==
  JObj([relatedOs |-> JStr(relatedOs), rootJoinField |-> JStr(joinField),
        relatedKeyField |-> JStr(joinField), relatedSiteField |-> JStr("siteid"),
        maxKeys |-> JNum(50), pageSize |-> JNum(200), select |-> JStr(joinField)])

builtIn ==
  JObj([version |-> JNum(1),
        relationships |-> JObj([
          mxapiwo |-> JObj([asset |-> RelEntry("mxapiasset", "assetnum"),
                            location |-> RelEntry("mxapilocations", "location")]),
          mxapisr |-> JObj([asset |-> RelEntry("mxapiasset", "assetnum")]),
          mxapipo |-> JObj([vendor |-> RelEntry("mxapivendor", "vendor")]),
          mxapipr |-> JObj([vendor |-> RelEntry("mxapivendor", "vendor")])])])

FileMissing == [exists |-> FALSE]
FileUnreadable == [exists |-> TRUE, readable |-> FALSE]
FileText(text) == [exists |-> TRUE, readable |-> TRUE, text |-> text]

\* try { if (fs.existsSync(f)) x = safeJson(fs.readFileSync(f, "utf8")) } catch {}
ReadLayer(file) ==
  IF ~file.exists THEN JNull
  ELSE IF ~file.readable THEN JNull
  ELSE safeJson(file.text)

MergeLayer(out, layer) ==
  With(Get(layer, "relationships"), LAMBDA rels :
    IF Truthy(rels) /\ rels.t \in {"object", "array"}
    THEN JObj([out.v EXCEPT !.relationships = Spread(out.v.relationships, rels)])
    ELSE out)

\* faulty variant: one try block around both reads, so that a defaults file
\* that cannot be read or parsed keeps the tenant file from being read
loadRelationshipsConfigOneTry(defaultsFile, tenantFile) ==
  IF defaultsFile.exists /\ ReadLayer(defaultsFile) = JNull
  THEN builtIn
  ELSE MergeLayer(MergeLayer(builtIn, ReadLayer(defaultsFile)), ReadLayer(tenantFile))

\* lines 421-443: both files are read, each in its own try block, and merged
loadRelationshipsConfig(defaultsFile, tenantFile) ==
  MergeLayer(MergeLayer(builtIn, ReadLayer(defaultsFile)), ReadLayer(tenantFile))

(***************************************************************************)
(* prefetchKeys, from the value the transport resolved with.               *)
(***************************************************************************)
\* lines 471-475: an envelope { r, respText } is parsed a second time
ResponseBody(r2) ==
  IF Truthy(r2) /\ r2.t = "object" /\ Truthy(Get(r2, "r")) /\ Get(r2, "respText").t = "string"
  THEN With(safeJson(Get(r2, "respText").v), LAMBDA parsed :
         IF parsed.t \in {"null", "undefined"}
         THEN JObj([raw |-> Get(r2, "respText")])
         ELSE parsed)
  ELSE r2

\* members.map((it) => it?.[relatedKeyField]).filter(Boolean).map((x) => String(x).trim())
KeysOf(r2, relatedKeyField) ==
  With(getOslcMembers(ResponseBody(r2)), LAMBDA members :
  With(SelectTruthy([i \in 1..Len(members) |-> Get(members[i], relatedKeyField)]), LAMBDA vals :
    [i \in 1..Len(vals) |-> trim(ToStr(vals[i]))]))

(***************************************************************************)
(* The inputs of one planning call.                                        *)
(***************************************************************************)
\* the longest member list a transport response carries
MaxMembers == 2

\* values of the key field in the related rows
RawKeys == {"A100", " B\"7 "}

Filters ==
  { "",
    "status=\"APPR\"",
    "asset.assettype=\"SENSOR\"",
    "vendor.name like \"Acme%\"",
    "asset . assettype LIKE 'S%' and status=\"APPR\"",
    "status=\"APPR\" and asset.assettype=\"SENSOR\" and vendor.name like \"Acme%\"",
    "asset.assettype=\"SENSOR\" and asset.assettype=\"PUMP\"",
    "asset.assettype=\"SENSOR\" or asset.assettype=\"SENSOR\"",
    "Asset.assettype=\"X\" and asset.assettype=\"SENSOR\"",
    "asset.status != 'a\"b' and location.siteid = \"BEDFORD\"",
    "location.siteid like \"B%\"",
    "asset.status = 'a\"\\'",
    "location.status=\"A\" and Location.status=\"B\"" }

\* the parameter bag: another parameter, and the filter when there is one
OtherParams == [x \in {"oslc.select"} |-> "wonum,status"]

WithWhere(bag, w) ==
  [k \in DOMAIN bag \cup {"oslc.where"} |-> IF k = "oslc.where" THEN w ELSE bag[k]]

ParamBags == {OtherParams} \cup {WithWhere(OtherParams, w) : w \in Filters}

RootNames == {"mxapiwo", "MXAPIPR"}
Sites == {"", "BEDFORD"}
\* the defaults file: none, one that cannot be read, or DefaultsText
DefaultsFiles == {FileMissing, FileUnreadable, FileText(DefaultsText)}
\* the tenant file: none, one cut short, or TenantText
TenantFiles == {FileMissing, FileText(MalformedText), FileText(TenantText)}
\* process.env.MAX_PREFETCH_KEYS: unset, or "1"
EnvMaxKeys == {JUndefined, JStr("1")}

RECURSIVE SeqsUpTo(_, _)
SeqsUpTo(S, n) ==
  IF n = 0 THEN {<<>>}
  ELSE LET shorter == SeqsUpTo(S, n - 1)
       IN  shorter \cup {Append(q, x) : q \in {r \in shorter : Len(r) = n - 1}, x \in S}

Row(keyField, v) == JObj(keyField :> JStr(v))

\* what the transport may resolve with for a query on keyField
Responses(keyField) ==
  LET rows == {Row(keyField, v) : v \in RawKeys}
  IN  {JObj([member |-> JArr(l)]) : l \in SeqsUpTo(rows, MaxMembers)}
      \cup { JObj("rdfs:member" :> JArr(<<Row(keyField, "A100")>>)),
             JObj([member |-> JArr(<<JArr(<<Row(keyField, "A100"), Row(keyField, "A101")>>)>>)]),
             JObj([member |-> JArr(<<Row(keyField, ""), Row("href", "x"), Row(keyField, "  ")>>)]),
             JObj([member |-> JArr(<<Row(keyField, "$&"), Row(keyField, "A100")>>)]),
             JNull,
             JObj([r |-> JObj([status |-> JNum(200)]), respText |-> JStr(MemberText)]),
             JObj([r |-> JObj([status |-> JNum(502)]), respText |-> JStr(HtmlText)]) }

(***************************************************************************)
(* State of one call of applyRelationshipPrefetch.                         *)
(***************************************************************************)
VARIABLES
  args,          \* what the caller passed: os, defaultSite and the bag as it was
  env,           \* files, process.env and the base-URL provider
  params,        \* the caller's parameter bag, as the caller sees it
  writes,        \* number of assignments made to the bag
  pc,            \* "call", "loop", "prefetch", "await", "done"
  plan,
  where,
  mutatedWhere,
  relsForOs,
  idx,           \* position in preds of the for loop, 1-based
  cur,           \* the locals of the current iteration
  fetches,       \* the requests handed to maximoFetch, in order
  outcome,       \* per predicate: what the loop did with it
  occ,           \* per predicate: where its clause now lies in mutatedWhere
  result         \* "pending", "returned" or "threw"

vars == <<args, env, params, writes, pc, plan, where, mutatedWhere, relsForOs, idx, cur,
          fetches, outcome, occ, result>>

(***************************************************************************)
(* State of the ConceptsPage component (lines 141-212) and of the          *)
(* relationships admin overlay (lines 680-836).  They share nothing with   *)
(* the planner: each of the three is started on its own and the other two  *)
(* then stay as constructed.                                               *)
(***************************************************************************)
VARIABLES
  tenantId,      \* the tenant of the last render
  loading,
  saving,
  error,         \* "" for null
  concepts,      \* the catalog shown and the tenant it was fetched for
  tables,        \* the three override tables shown, taken together
  loads,         \* the calls of load() that await their responses
  puts,          \* the PUT of save() that awaits its response
  stored         \* per tenant, whether the server holds edited overrides

VARIABLES
  state,         \* the overlay's state object: scope and items
  errBox,        \* the text of the error box, "" when hidden
  infoBox,
  requests,      \* the GET and PUT requests that await their responses
  last           \* the handler that ran last: "save", "put-ok" or "other"

uiVars == <<tenantId, loading, saving, error, concepts, tables, loads, puts, stored,
            state, errBox, infoBox, requests, last>>

\* the tenants a URL or the stored settings may name
Tenants == {"default", "acme"}

\* lines 143-150 and 176-180: the first render for tenant t and its effect,
\* which starts the first load
PageStart(t) ==
  /\ tenantId = t
  /\ loading = TRUE
  /\ saving = FALSE
  /\ error = ""
  /\ concepts = [tenant |-> ""]
  /\ tables = [tenant |-> "", edited |-> FALSE]
  /\ loads = <<[tenant |-> t, bySave |-> FALSE]>>
  /\ puts = <<>>
  /\ stored = [u \in Tenants |-> FALSE]

\* lines 684-691 and 835: render() builds the state and starts the first load
AdminStart ==
  /\ state = [scope |-> "tenant", items |-> <<>>]
  /\ errBox = ""
  /\ infoBox = ""
  /\ requests = <<[kind |-> "get", bySave |-> FALSE]>>
  /\ last = "other"

EmptyPlan == [mode |-> "none", detected |-> <<>>, steps |-> <<>>, truncated |-> FALSE,
              errors |-> <<>>]

NoCur == [relName |-> ""]

Init ==
  /\ args \in [os : RootNames, defaultSite : Sites, params : ParamBags]
  /\ env \in [defaultsFile : DefaultsFiles, tenantFile : TenantFiles,
              MAX_PREFETCH_KEYS : EnvMaxKeys, baseUrlThrows : BOOLEAN]
  /\ params = args.params
  /\ writes = 0
  /\ pc = "call"
  /\ plan = EmptyPlan
  /\ where = ""
  /\ mutatedWhere = ""
  /\ relsForOs = JNull
  /\ idx = 0
  /\ cur = NoCur
  /\ fetches = <<>>
  /\ outcome = <<>>
  /\ occ = <<>>
  /\ result = "pending"
  /\ PageStart("default")
  /\ AdminStart

\* the page and the overlay as constructed, beside a planner whose one call is
\* never made
InitUi ==
  /\ Init
  /\ args = [os |-> "mxapiwo", defaultSite |-> "", params |-> OtherParams]
  /\ env = [defaultsFile |-> FileMissing, tenantFile |-> FileMissing,
            MAX_PREFETCH_KEYS |-> JUndefined, baseUrlThrows |-> FALSE]

preds == plan.detected

\* return { plan }
Return == pc' = "done" /\ result' = "returned"

\* line 493: if (!where) return { plan }
NoWhere(w) == w = ""

\* faulty variant: the planner goes on without a predicate
NoPredicatesNever(ps) == FALSE

\* line 500: if (!preds.length) return { plan }
NoPredicates(ps) == Len(ps) = 0

\* faulty variant: no outer catch, the exception leaves the call
Uncaught(pl, message) ==
  /\ pc' = "done"
  /\ result' = "threw"
  /\ plan' = pl

\* lines 599-603: the outer catch, pl being the plan as the try block left it
CaughtWith(pl, message) ==
  /\ Return
  /\ plan' = [pl EXCEPT !.mode = "error", !.errors = Append(@, [message |-> message])]

\* lines 482-506: up to the start of the loop
RelsForOs(cfg, os) ==
  With(Get(cfg, "relationships"), LAMBDA rels :
    OrElse(OrElse(Get(rels, toLowerCase(os)), Get(rels, os)), JNull))

\* lines 499-506, ms being the matches of the detector in w
Detected(w, ms) ==
  \E ps \in {PredicatesOf(ms)} :
    IF NoPredicates(ps) THEN
      /\ Return
      /\ UNCHANGED <<plan, idx, mutatedWhere, outcome, occ>>
    ELSE IF env.baseUrlThrows THEN
      \* line 504: maximoApiBase(t) throws, after plan.detected was set
      /\ CaughtWith([plan EXCEPT !.detected = ps], "no base url")
      /\ UNCHANGED <<idx, mutatedWhere, outcome, occ>>
    ELSE
      /\ plan' = [plan EXCEPT !.detected = ps]
      /\ mutatedWhere' = w
      /\ idx' = 1
      /\ outcome' = [i \in 1..Len(ps) |-> [kind |-> "pending"]]
      /\ occ' = [i \in 1..Len(ms) |->
                   [from |-> ms[i].from, to |-> ms[i].to, by |-> 0, hits |-> <<>>,
                    text |-> SubSeq(w, ms[i].from, ms[i].to - 1)]]
      /\ pc' = "loop"
      /\ UNCHANGED result

\* lines 482-506: up to the start of the loop
Call ==
  /\ pc = "call"
  /\ \E w \in {IF "oslc.where" \in DOMAIN params THEN params["oslc.where"] ELSE ""} :
       /\ where' = w
       /\ IF NoWhere(w) THEN
            /\ Return
            /\ UNCHANGED <<plan, relsForOs, idx, mutatedWhere, outcome, occ>>
          ELSE
            /\ relsForOs' = RelsForOs(loadRelationshipsConfig(env.defaultsFile, env.tenantFile),
                                      args.os)
            /\ \E ms \in {DetectMatches(w, 1)} : Detected(w, ms)
  /\ UNCHANGED <<args, env, params, writes, cur, fetches>>

\* lines 509-519: the configuration entry of predicate p and what is read from it
RelCfg(p) == Get(relsForOs, p.rel)

CfgStr(relCfg, name) == trim(ToStr(OrElse(Get(relCfg, name), JStr(""))))

LocalsOf(p, relCfg) ==
  [relName |-> p.rel,
   field |-> p.field,
   relatedOs |-> CfgStr(relCfg, "relatedOs"),
   rootJoinField |-> CfgStr(relCfg, "rootJoinField"),
   relatedKeyField |-> CfgStr(relCfg, "relatedKeyField"),
   relatedSiteField |-> CfgStr(relCfg, "relatedSiteField"),
   select |-> With(CfgStr(relCfg, "select"), LAMBDA s :
                IF s # "" THEN s ELSE CfgStr(relCfg, "relatedKeyField")),
   pageSize |-> ToNum(OrElse(Get(relCfg, "pageSize"), JNum(200))),
   maxKeys |-> ToNum(OrElse(OrElse(Get(relCfg, "maxKeys"), env.MAX_PREFETCH_KEYS),
                            JNum(50)))]

Locals(p) == LocalsOf(p, RelCfg(p))

\* line 511 and line 521
Usable(p) ==
  /\ Truthy(RelCfg(p))
  /\ With(Locals(p), LAMBDA l :
       l.relatedOs # "" /\ l.rootJoinField # "" /\ l.relatedKeyField # "")

\* /(^|\W)siteid\s*(=|!=|\bin\b)/i.test(s)
MentionsSiteid(s) ==
  \E i \in 1..Len(s) :
    /\ i = 1 \/ Ch(s, i - 1) \notin WordChars
    /\ toLowerCase(Peek(s, i, 6)) = "siteid"
    /\ \E j \in {ScanWhile(s, i + 6, SpaceChars)} :
           \/ Peek(s, j, 1) = "="
           \/ Peek(s, j, 2) = "!="
           \/ /\ toLowerCase(Peek(s, j, 2)) = "in"
              /\ WordBoundary(s, j)
              /\ WordBoundary(s, j + 2)

\* lines 524-533
RelatedWhere(p, relatedSiteField, defaultSite) ==
  With(p.field \o " "
         \o (IF p.op = "like" THEN "like" ELSE IF p.op = "!=" THEN "!=" ELSE "=")
         \o " " \o DQ \o escapeWhereString(p.value) \o DQ,
       LAMBDA relWhere :
         IF defaultSite # "" /\ relatedSiteField # "" /\ ~MentionsSiteid(relWhere)
         THEN relatedSiteField \o "=" \o DQ \o escapeWhereString(defaultSite) \o DQ
                \o " and " \o relWhere
         ELSE relWhere)

\* lines 508-521: continue, for a predicate without a usable entry
SkipPredicate ==
  /\ pc = "loop"
  /\ idx <= Len(preds)
  /\ ~Usable(preds[idx])
  /\ outcome' = [outcome EXCEPT ![idx] =
                   [kind |-> IF Truthy(RelCfg(preds[idx])) THEN "unusable" ELSE "unconfigured"]]
  /\ idx' = idx + 1
  /\ UNCHANGED <<args, env, params, writes, pc, plan, where, mutatedWhere, relsForOs, cur,
                 fetches, occ, result>>

\* faulty variant: the prefetch is not announced in the plan
AnnouncePrefetchUnrecorded ==
  /\ pc = "loop"
  /\ idx <= Len(preds)
  /\ Usable(preds[idx])
  /\ \E l \in {Locals(preds[idx])} :
     \E relWhere \in {RelatedWhere(preds[idx], l.relatedSiteField, args.defaultSite)} :
         /\ cur' = [relWhere |-> relWhere] @@ l
         /\ plan' = [plan EXCEPT !.mode = "prefetch"]
  /\ pc' = "prefetch"
  /\ UNCHANGED <<args, env, params, writes, where, mutatedWhere, relsForOs, idx, fetches,
                 outcome, occ, result>>

\* lines 523-545: the related filter is built and the prefetch announced
AnnouncePrefetch ==
  /\ pc = "loop"
  /\ idx <= Len(preds)
  /\ Usable(preds[idx])
  /\ \E l \in {Locals(preds[idx])} :
     \E relWhere \in {RelatedWhere(preds[idx], l.relatedSiteField, args.defaultSite)} :
         /\ cur' = [relWhere |-> relWhere] @@ l
         /\ plan' = [plan EXCEPT !.mode = "prefetch",
                       !.steps = Append(@,
                          [kind |-> "prefetch", relationship |-> l.relName,
                           relatedOs |-> l.relatedOs, relatedWhere |-> relWhere,
                           select |-> l.select, rootJoinField |-> l.rootJoinField,
                           relatedKeyField |-> l.relatedKeyField, maxKeys |-> l.maxKeys])]
  /\ pc' = "prefetch"
  /\ UNCHANGED <<args, env, params, writes, where, mutatedWhere, relsForOs, idx, fetches,
                 outcome, occ, result>>

\* faulty variant: the inner catch records nothing
RecordFailureSilent(message) ==
  /\ plan' = plan
  /\ outcome' = [outcome EXCEPT ![idx] = [kind |-> "failed", message |-> message]]
  /\ idx' = idx + 1
  /\ pc' = "loop"
  /\ cur' = NoCur

\* faulty variant: a failed prefetch marks the whole plan as failed
RecordFailureAsError(message) ==
  /\ plan' = [plan EXCEPT !.mode = "error",
                          !.errors = Append(@, [relationship |-> cur.relName,
                                                message |-> message])]
  /\ outcome' = [outcome EXCEPT ![idx] = [kind |-> "failed", message |-> message]]
  /\ idx' = idx + 1
  /\ pc' = "loop"
  /\ cur' = NoCur

\* faulty variant: a failed prefetch ends the loop
RecordFailureAborts(message) ==
  /\ plan' = [plan EXCEPT !.errors = Append(@, [relationship |-> cur.relName,
                                                message |-> message])]
  /\ outcome' = [outcome EXCEPT ![idx] = [kind |-> "failed", message |-> message]]
  /\ idx' = Len(preds) + 1
  /\ pc' = "loop"
  /\ cur' = NoCur

\* lines 570-573: the inner catch
RecordFailure(message) ==
  /\ plan' = [plan EXCEPT !.errors = Append(@, [relationship |-> cur.relName,
                                                message |-> message])]
  /\ outcome' = [outcome EXCEPT ![idx] = [kind |-> "failed", message |-> message]]
  /\ idx' = idx + 1
  /\ pc' = "loop"
  /\ cur' = NoCur

\* faulty variant: the request is sent a second time
InvokeTransportTwice ==
  /\ pc = "prefetch"
  /\ fetches' = fetches
       \o <<[pred |-> idx, relatedOs |-> cur.relatedOs, where |-> cur.relWhere,
             select |-> cur.select, pageSize |-> cur.pageSize],
            [pred |-> idx, relatedOs |-> cur.relatedOs, where |-> cur.relWhere,
             select |-> cur.select, pageSize |-> cur.pageSize]>>
  /\ pc' = "await"
  /\ UNCHANGED <<args, env, params, writes, plan, where, mutatedWhere, relsForOs, idx, cur,
                 outcome, occ, result>>

\* faulty variant: the query of the next predicate is sent along with the
\* current one, without waiting
InvokeTransportAhead ==
  /\ pc = "prefetch"
  /\ fetches' = fetches
       \o <<[pred |-> idx, relatedOs |-> cur.relatedOs, where |-> cur.relWhere,
             select |-> cur.select, pageSize |-> cur.pageSize]>>
       \o (IF idx < Len(preds) /\ Usable(preds[idx + 1])
           THEN With(Locals(preds[idx + 1]), LAMBDA l :
                  <<[pred |-> idx + 1, relatedOs |-> l.relatedOs,
                     where |-> RelatedWhere(preds[idx + 1], l.relatedSiteField,
                                            args.defaultSite),
                     select |-> l.select, pageSize |-> l.pageSize]>>)
           ELSE <<>>)
  /\ pc' = "await"
  /\ UNCHANGED <<args, env, params, writes, plan, where, mutatedWhere, relsForOs, idx, cur,
                 outcome, occ, result>>

\* lines 459-466: prefetchKeys builds the query and hands it to maximoFetch
InvokeTransport ==
  /\ pc = "prefetch"
  /\ fetches' = Append(fetches, [pred |-> idx, relatedOs |-> cur.relatedOs,
                                 where |-> cur.relWhere, select |-> cur.select,
                                 pageSize |-> cur.pageSize])
  /\ pc' = "await"
  /\ UNCHANGED <<args, env, params, writes, plan, where, mutatedWhere, relsForOs, idx, cur,
                 outcome, occ, result>>

\* line 466: authHeaders(t) throws while the request is being built, before
\* maximoFetch is called
AuthHeadersThrows ==
  /\ pc = "prefetch"
  /\ RecordFailure("no credentials")
  /\ UNCHANGED <<args, env, params, writes, where, mutatedWhere, relsForOs, fetches, occ,
                 result>>

\* line 466: the awaited maximoFetch rejects
TransportThrows ==
  /\ pc = "await"
  /\ RecordFailure("fetch failed")
  /\ UNCHANGED <<args, env, params, writes, where, mutatedWhere, relsForOs, fetches, occ,
                 result>>

\* faulty variant: every returned key is used
UsedKeysAll(keys, maxKeys) == keys

\* (out.keys || []).slice(0, Math.max(0, maxKeys))
UsedKeys(keys, maxKeys) ==
  LET n == IF maxKeys < 0 THEN 0 ELSE maxKeys
  IN  SubSeq(keys, 1, IF Len(keys) < n THEN Len(keys) ELSE n)

\* where the clause occurrences lie after the match m was replaced by a text
\* delta longer: the occurrence holding the start of the match is the one
\* replaced (by: the first predicate whose rewrite landed in it, hits: all of
\* them in order)
MoveOccurrences(o, m, delta, by) ==
      [j \in 1..Len(o) |->
         IF o[j].from <= m.from /\ m.from < o[j].to
         THEN [o[j] EXCEPT !.to = @ + delta, !.by = IF @ = 0 THEN by ELSE @,
                           !.hits = Append(@, by)]
         ELSE IF o[j].from >= m.to
         THEN [o[j] EXCEPT !.from = @ + delta, !.to = @ + delta]
         ELSE o[j]]

\* faulty variant: a clause that an earlier predicate already had substituted
\* is not substituted again for a later identical predicate
RewriteOnce(repl) ==
  IF \E j \in 1..(idx - 1) : preds[j] = preds[idx] /\ outcome[j].kind = "resolved"
  THEN UNCHANGED <<mutatedWhere, occ, params, writes>>
  ELSE \E m \in {ClauseExec(mutatedWhere, 1, cur.relName, cur.field)} :
       \E out \in {ReplaceMatch(mutatedWhere, m, repl)} :
           /\ mutatedWhere' = out
           /\ occ' = IF m.ok
                     THEN MoveOccurrences(occ, m, Len(out) - Len(mutatedWhere), idx)
                     ELSE occ
           /\ UNCHANGED <<params, writes>>

\* faulty variant: each rewrite is written to the bag at once
RewriteInPlace(repl) ==
  \E m \in {ClauseExec(mutatedWhere, 1, cur.relName, cur.field)} :
  \E out \in {ReplaceMatch(mutatedWhere, m, repl)} :
      /\ mutatedWhere' = out
      /\ occ' = IF m.ok
                THEN MoveOccurrences(occ, m, Len(out) - Len(mutatedWhere), idx)
                ELSE occ
      /\ params' = WithWhere(params, out)
      /\ writes' = writes + 1

\* lines 579-580 and 588-589: the expression is built from relName and p.field
\* and the first match in mutatedWhere is replaced; the bag is not touched
Rewrite(repl) ==
  \E m \in {ClauseExec(mutatedWhere, 1, cur.relName, cur.field)} :
  \E out \in {ReplaceMatch(mutatedWhere, m, repl)} :
      /\ mutatedWhere' = out
      /\ occ' = IF m.ok
                THEN MoveOccurrences(occ, m, Len(out) - Len(mutatedWhere), idx)
                ELSE occ
      /\ UNCHANGED <<params, writes>>

\* line 577: the always-false clause on the root join field
FalseClause(rootJoinField) == rootJoinField \o "=" \o DQ \o "__NO_MATCH__" \o DQ

\* lines 575-591: the text put in place of the clause, keys being the keys used
Replacement(rootJoinField, keys) ==
  IF Len(keys) = 0 THEN FalseClause(rootJoinField) ELSE buildOrBlock(rootJoinField, keys)

\* lines 581 and 590: the step that records the rewrite
RewriteStep(relName, keys, repl) ==
  IF Len(keys) = 0
  THEN [kind |-> "rewrite", relationship |-> relName, replacedWith |-> repl,
        note |-> "no related matches"]
  ELSE [kind |-> "rewrite", relationship |-> relName, replacedWith |-> repl]

\* faulty variant: the flag tells of the last prefetch only
TruncatedLast(was, returned, used) == Len(returned) > Len(used)

\* line 562: if (out.keys.length > keys.length) plan.truncated = true
Truncated(was, returned, used) == was \/ Len(returned) > Len(used)

\* lines 466-479 and 561-591: maximoFetch resolved with r2
TransportReturns(r2) ==
  /\ pc = "await"
  /\ \E outKeys \in {KeysOf(r2, cur.relatedKeyField)} :
     \E keys \in {UsedKeys(outKeys, cur.maxKeys)} :
     \E repl \in {Replacement(cur.rootJoinField, keys)} :
         /\ outcome' = [outcome EXCEPT ![idx] =
                          [kind |-> "resolved", response |-> r2,
                           returned |-> outKeys, used |-> keys,
                           maxKeys |-> cur.maxKeys, rootJoinField |-> cur.rootJoinField,
                           truncates |-> Len(outKeys) > Len(keys)]]
         /\ Rewrite(repl)
         /\ plan' = [plan EXCEPT
                       !.truncated = Truncated(@, outKeys, keys),
                       !.steps = @ \o <<[kind |-> "prefetch_result",
                                         relationship |-> cur.relName,
                                         keysReturned |-> Len(outKeys),
                                         keysUsed |-> Len(keys)],
                                        RewriteStep(cur.relName, keys, repl)>>]
  /\ idx' = idx + 1
  /\ pc' = "loop"
  /\ cur' = NoCur
  /\ UNCHANGED <<args, env, where, relsForOs, fetches, result>>

\* faulty variant: the bag is written whatever the final filter
FilterChangedAlways == TRUE

\* line 594: if (mutatedWhere !== where)
FilterChanged == mutatedWhere # where

\* lines 594-598: after the loop
Commit ==
  /\ pc = "loop"
  /\ idx > Len(preds)
  /\ IF FilterChanged
     THEN /\ params' = WithWhere(params, mutatedWhere)
          /\ writes' = writes + 1
     ELSE UNCHANGED <<params, writes>>
  /\ Return
  /\ UNCHANGED <<args, env, plan, where, mutatedWhere, relsForOs, idx, cur, fetches,
                 outcome, occ>>

Next ==
  \/ Call /\ UNCHANGED uiVars
  \/ SkipPredicate /\ UNCHANGED uiVars
  \/ AnnouncePrefetch /\ UNCHANGED uiVars
  \/ InvokeTransport /\ UNCHANGED uiVars
  \/ AuthHeadersThrows /\ UNCHANGED uiVars
  \/ TransportThrows /\ UNCHANGED uiVars
  \/ /\ pc = "await"
     /\ \E r2 \in Responses(cur.relatedKeyField) : TransportReturns(r2)
     /\ UNCHANGED uiVars
  \/ Commit /\ UNCHANGED uiVars

Spec == Init /\ [][Next]_vars

(***************************************************************************)
(* Properties of the planning call.                                        *)
(***************************************************************************)
\* the filter as the caller passed it
OriginalWhere == IF "oslc.where" \in DOMAIN args.params THEN args.params["oslc.where"] ELSE ""

\* the filter the caller sees in the bag
VisibleWhere == IF "oslc.where" \in DOMAIN params THEN params["oslc.where"] ELSE ""

Returned == pc = "done" /\ result = "returned"

\* the clause of predicate i as it stands in the filter the caller sees
ClauseNow(i) == SubSeq(VisibleWhere, occ[i].from, occ[i].to - 1)

\* the filter the call ends with: the original when the loop was never entered
FinalWhere == IF idx = 0 THEN OriginalWhere ELSE mutatedWhere

Resolved(i) == outcome[i].kind = "resolved"
Failed(i) == outcome[i].kind = "failed"

\* the number of steps pushed for the predicates before predicate i: one
\* for a failed one, three for a resolved one
StepsBefore(i) ==
  3 * Cardinality({j \in 1..(i - 1) : Resolved(j)}) + Cardinality({j \in 1..(i - 1) : Failed(j)})

\* the position in plan.errors of the entry of the failed predicate i
ErrorRank(i) == Cardinality({j \in 1..i : Failed(j)})

\* C1: a call whose filter holds no dotted-relation predicate (an empty or a
\* missing filter included) returns a plan with mode "none", no step and no
\* error, and the parameter bag is as it was passed in.
C1_NoPredicateLeavesAllAlone ==
  (pc = "done" /\ Len(detectRelationshipPredicates(OriginalWhere)) = 0) =>
     /\ result = "returned"
     /\ plan.mode = "none"
     /\ plan.steps = <<>>
     /\ plan.errors = <<>>
     /\ plan.detected = <<>>
     /\ params = args.params

\* C1 witness: a call with a non-empty filter without predicates has returned
\* although the base-URL provider would have thrown
C1_Witness ==
  /\ Returned
  /\ OriginalWhere = "status=\"APPR\""
  /\ env.baseUrlThrows

\* C2: when a call has returned, every predicate whose prefetch returned
\* between one and maxKeys keys has its own clause replaced, in the filter
\* the caller sees, by the parenthesized disjunction of rootJoinField="key"
\* over the returned keys in their order, and that predicate did not set the
\* truncated flag.
C2_ResolvedClauseIsDisjunction ==
  Returned =>
    \A i \in DOMAIN outcome :
      (/\ Resolved(i)
       /\ Len(outcome[i].returned) >= 1
       /\ Len(outcome[i].returned) <= outcome[i].maxKeys)
      => /\ ClauseNow(i) = buildOrBlock(outcome[i].rootJoinField, outcome[i].returned)
         /\ ~outcome[i].truncates

C4_EmptyResultBecomesSentinel ==
  Returned =>
    \A i \in DOMAIN outcome :
      (Resolved(i) /\ Len(outcome[i].returned) = 0)
      => /\ ClauseNow(i) = FalseClause(outcome[i].rootJoinField)
         /\ \E s \in 1..Len(plan.steps) :
              /\ plan.steps[s].kind = "rewrite"
              /\ plan.steps[s].relationship = plan.detected[i].rel
              /\ plan.steps[s].replacedWith = FalseClause(outcome[i].rootJoinField)

\* C5: when a call has returned, every detected predicate whose alias has no
\* entry for the root resource has its clause, in the filter the caller
\* sees, exactly as it was passed in, and no step and no error of the plan
\* names its alias.
C5_UnconfiguredClauseUntouched ==
  Returned =>
    \A i \in DOMAIN outcome :
      outcome[i].kind = "unconfigured"
      => /\ ClauseNow(i) = occ[i].text
         /\ \A s \in 1..Len(plan.steps) : plan.steps[s].relationship # plan.detected[i].rel
         /\ \A e \in 1..Len(plan.errors) : plan.errors[e].relationship # plan.detected[i].rel

\* C6: when a call has returned, every predicate whose prefetch failed has
\* its own clause, in the filter the caller sees, exactly as it was passed
\* in, whatever became of the other predicates.
C6_FailedClauseSurvives ==
  Returned =>
    \A i \in DOMAIN outcome :
      Failed(i) => (occ[i].by = 0 /\ ClauseNow(i) = occ[i].text)

BaseUrlThrew ==
  /\ env.baseUrlThrows
  /\ Len(detectRelationshipPredicates(OriginalWhere)) > 0

\* C8: no call ends by throwing: a call that has ended has returned, whatever
\* the files hold and whether the base-URL provider, the auth-header provider
\* or the transport threw; when the base-URL provider threw, the plan
\* returned has mode "error", its error list ends with the message thrown,
\* and it keeps the predicates detected before.
C8_NeverThrows ==
  /\ result # "threw"
  /\ pc = "done" => result = "returned"
  /\ (pc = "done" /\ BaseUrlThrew) =>
       /\ plan.mode = "error"
       /\ Len(plan.errors) >= 1
       /\ plan.errors[Len(plan.errors)] = [message |-> "no base url"]
       /\ plan.detected = detectRelationshipPredicates(OriginalWhere)

\* C8 witness: a call has returned although the base-URL provider threw
C8_Witness ==
  /\ Returned
  /\ BaseUrlThrew
  /\ plan.mode = "error"

\* C9: the filter of the bag is assigned at most once in a call; as long as
\* the call has not ended (while a prefetch is awaited included) nothing was
\* assigned and the bag is as it was passed in; the one assignment is made
\* after the last predicate was processed.
C9_SingleLateWrite ==
  /\ writes <= 1
  /\ pc # "done" => (writes = 0 /\ params = args.params)
  /\ writes = 1 => (pc = "done" /\ idx > Len(plan.detected))

\* C9 witness: a prefetch is awaited for the second predicate while the
\* filter being built already differs from the one the caller sees
C9_Witness ==
  /\ pc = "await"
  /\ idx = 2
  /\ mutatedWhere # where
  /\ VisibleWhere = OriginalWhere

\* C10: at every point of a call each entry of the bag other than the filter
\* is as it was passed in and no entry was added to it; and a call that has
\* ended with a final filter equal to the original, or with a planner-level
\* error, has assigned nothing: the bag is as it was passed in.
C10_OnlyWhereWritten ==
  /\ DOMAIN params \ {"oslc.where"} = DOMAIN args.params \ {"oslc.where"}
  /\ \A k \in DOMAIN args.params \ {"oslc.where"} : params[k] = args.params[k]
  /\ (pc = "done" /\ (FinalWhere = OriginalWhere \/ plan.mode = "error")) =>
       (writes = 0 /\ params = args.params)

\* C10 witness: a call has returned with mode "prefetch" and a final filter
\* equal to the original, the loop having processed a predicate
C10_Witness ==
  /\ Returned
  /\ idx > 0
  /\ plan.mode = "prefetch"
  /\ FinalWhere = OriginalWhere

\* the entry a layer file holds for alias a of root resource R (undefined
\* when the layer is absent or holds none)
LayerEntry(file, R, a) == Get(Get(Get(ReadLayer(file), "relationships"), R), a)

\* the entry of the highest layer that defines (R, a): tenant file, then
\* defaults file, then built-in
HighestEntry(R, a) ==
  IF Truthy(LayerEntry(env.tenantFile, R, a)) THEN LayerEntry(env.tenantFile, R, a)
  ELSE IF Truthy(LayerEntry(env.defaultsFile, R, a)) THEN LayerEntry(env.defaultsFile, R, a)
  ELSE Get(Get(Get(builtIn, "relationships"), R), a)

\* C11: once a call has loaded the configuration, the entry in effect for
\* each alias of the root resource is the whole entry of the highest layer
\* (tenant file, defaults file, built-in) that defines that alias for that
\* resource; so an alias that only a lower layer defines is still in effect
\* when a higher layer defines other aliases of the resource.
C11_EntryLevelOverride ==
  (pc # "call" /\ where # "") =>
    \A a \in {"asset", "location", "vendor"} :
      Get(relsForOs, a) = HighestEntry(toLowerCase(args.os), a)

\* a file that exists but cannot be read or parsed
Broken(file) == file.exists /\ (~file.readable \/ safeJson(file.text) = JNull)

\* the same path with no file at it when the file there is broken
AsAbsent(file) == IF Broken(file) THEN FileMissing ELSE file

\* C12: an override file that is missing, unreadable or not JSON counts as an
\* absent layer: the configuration loaded is the one loaded when no file is
\* at that path, and the plan of the call holds no error for it (its errors
\* are those of failed prefetches and of the base-URL provider only).
C12_BrokenFileIsAbsentLayer ==
  (pc # "call" /\ where # "") =>
    /\ loadRelationshipsConfig(env.defaultsFile, env.tenantFile)
         = MergeLayer(MergeLayer(builtIn, ReadLayer(AsAbsent(env.defaultsFile))),
                      ReadLayer(AsAbsent(env.tenantFile)))
    /\ relsForOs = RelsForOs(MergeLayer(MergeLayer(builtIn, ReadLayer(AsAbsent(env.defaultsFile))),
                                        ReadLayer(AsAbsent(env.tenantFile))), args.os)
    /\ Len(plan.errors) = Cardinality({i \in DOMAIN outcome : Failed(i)})
                            + (IF plan.mode = "error" THEN 1 ELSE 0)

\* C12 witness: a call has returned a prefetch plan without errors although
\* the defaults file is unreadable and the tenant file is not JSON
C12_Witness ==
  /\ Returned
  /\ Broken(env.defaultsFile) /\ ~env.defaultsFile.readable
  /\ Broken(env.tenantFile) /\ env.tenantFile.readable
  /\ plan.mode = "prefetch"
  /\ plan.errors = <<>>
  /\ \E i \in DOMAIN outcome : Resolved(i)

\* lines 471-472: the transport resolved with an envelope { r, respText }
IsEnvelope(r2) ==
  Truthy(r2) /\ r2.t = "object" /\ Truthy(Get(r2, "r")) /\ Get(r2, "respText").t = "string"

\* an envelope that reports a failure: its status is not a 2xx one, or its
\* body is not JSON
FailureEnvelope(r2) ==
  /\ IsEnvelope(r2)
  /\ \/ Get(Get(r2, "r"), "status").t = "number" /\ Get(Get(r2, "r"), "status").v \notin 200..299
     \/ safeJson(Get(r2, "respText").v) = JNull

\* the resolution of predicate i failed in one of the three ways of the
\* error-handling section: the transport threw, or it returned a failure
\* envelope
ResolutionFailed(i) ==
  \/ Failed(i) /\ outcome[i].message = "fetch failed"
  \/ Resolved(i) /\ FailureEnvelope(outcome[i].response)

\* C13: a predicate whose resolution failed (the transport threw, or returned
\* an envelope with a non-success status or with a body that is not JSON) has
\* an entry in plan.errors, and its clause is in the committed filter as it
\* was written: it is not rewritten, and not replaced by the no-match clause.
C13_FailuresRecordedNotRewritten ==
  Returned =>
    \A i \in DOMAIN outcome :
      ResolutionFailed(i) =>
        /\ \E k \in DOMAIN plan.errors : plan.errors[k].relationship = preds[i].rel
        /\ Len(plan.errors) >= Cardinality({j \in 1..i : ResolutionFailed(j)})
        /\ occ[i].by = 0
        /\ ClauseNow(i) = occ[i].text

\* the relation aliases for which the plan holds a rewrite step
RewrittenAliases ==
  {plan.steps[k].relationship : k \in {n \in DOMAIN plan.steps : plan.steps[n].kind = "rewrite"}}

\* C14: the detector, run on the committed filter, finds no dotted-relation
\* predicate on a relation alias for which the plan holds a rewrite step.
C14_RoundTrip ==
  Returned =>
    With(detectRelationshipPredicates(VisibleWhere), LAMBDA again :
      \A k \in DOMAIN again : again[k].rel \notin RewrittenAliases)

\* the requests handed to the transport that have neither resolved nor thrown
InFlight == {k \in DOMAIN fetches : outcome[fetches[k].pred].kind = "pending"}

\* C15: the prefetches of a call go out one after the other in the order of
\* the predicates in the filter: at most one is in flight, and only while the
\* call awaits it; when one is announced or in flight every earlier predicate
\* is settled and the steps of the earlier ones, their rewrites included, are
\* all in the plan; and none goes out before the configuration was loaded.
C15_PrefetchesInSequence ==
  /\ \A k \in DOMAIN fetches :
       /\ k > 1 => fetches[k - 1].pred < fetches[k].pred
       /\ fetches[k].pred \in DOMAIN preds
  /\ Cardinality(InFlight) <= 1
  /\ InFlight # {} <=> pc = "await"
  /\ InFlight # {} => InFlight = {Len(fetches)} /\ fetches[Len(fetches)].pred = idx
  /\ pc \in {"prefetch", "await"} =>
       /\ \A j \in 1..(idx - 1) : outcome[j].kind # "pending"
       /\ Len(plan.steps) = StepsBefore(idx) + 1
       /\ \A j \in 1..(idx - 1) :
            Resolved(j) => plan.steps[StepsBefore(j) + 3].kind = "rewrite"
  /\ fetches # <<>> =>
       /\ pc # "call"
       /\ relsForOs = RelsForOs(loadRelationshipsConfig(env.defaultsFile, env.tenantFile),
                                args.os)

\* C15 witness: the prefetch of the second predicate is in flight after the
\* first one resolved and was rewritten
C15_Witness ==
  /\ pc = "await"
  /\ Len(fetches) = 2
  /\ Resolved(fetches[1].pred)
  /\ fetches[2].pred = 2
  /\ mutatedWhere # where

\* the rewrite of predicate i replaced a clause of the filter
Substituted(i) ==
  \E j \in DOMAIN occ : \E n \in DOMAIN occ[j].hits : occ[j].hits[n] = i

\* C16: a failed prefetch ends the work on its own predicate only.  The
\* transport is invoked at most once per predicate and a predicate has at
\* most one prefetch step; a call that returns after its loop has settled
\* every predicate: each one with a usable entry was prefetched, and each one
\* whose prefetch resolved has its result and rewrite steps and made a
\* substitution, whatever failed before it; and the bag holds the filter the
\* loop ended with.
C16_FailureIsLocal ==
  /\ \A i \in DOMAIN outcome :
       /\ Cardinality({k \in DOMAIN fetches : fetches[k].pred = i}) <= 1
       /\ Failed(i) => plan.steps[StepsBefore(i) + 1].kind = "prefetch"
       /\ Failed(i) /\ StepsBefore(i) + 1 < Len(plan.steps) =>
            plan.steps[StepsBefore(i) + 2].kind = "prefetch"
  /\ (Returned /\ idx > 0) =>
       /\ idx = Len(preds) + 1
       /\ VisibleWhere = mutatedWhere
       /\ Len(plan.steps) = StepsBefore(idx)
       /\ \A i \in DOMAIN outcome :
            /\ Usable(preds[i]) <=> (Resolved(i) \/ Failed(i))
            /\ ~Usable(preds[i]) <=> outcome[i].kind \in {"unconfigured", "unusable"}
            /\ Resolved(i) =>
                 /\ plan.steps[StepsBefore(i) + 1].kind = "prefetch"
                 /\ plan.steps[StepsBefore(i) + 1].relationship = preds[i].rel
                 /\ plan.steps[StepsBefore(i) + 2].kind = "prefetch_result"
                 /\ plan.steps[StepsBefore(i) + 3].kind = "rewrite"
                 /\ Cardinality({k \in DOMAIN fetches : fetches[k].pred = i}) = 1
                 /\ Substituted(i)

\* C16 witness: a call has returned after the prefetch of its first predicate
\* threw and that of its second resolved and was rewritten
C16_Witness ==
  /\ Returned
  /\ Len(outcome) = 2
  /\ Failed(1) /\ outcome[1].message = "fetch failed"
  /\ Resolved(2)
  /\ Substituted(2)
  /\ VisibleWhere # OriginalWhere

\* predicates i < j of the same relation, field, operator and literal, written
\* the same way
SameClause(i, j) == i < j /\ preds[i] = preds[j] /\ occ[i].text = occ[j].text

\* C17 as stated: when a clause appears more than once and its predicates
\* resolve, only the first occurrence is substituted in the committed filter:
\* a later identical occurrence is still the dotted clause.
C17_OnlyFirstSubstituted ==
  Returned =>
    \A i, j \in DOMAIN outcome :
      (SameClause(i, j) /\ Resolved(i) /\ Resolved(j)) =>
        /\ occ[j].by = 0
        /\ ClauseNow(j) = occ[j].text

\* C17: each occurrence of a repeated clause is a predicate of its own: it
\* has its own request to the transport and, when that resolves, its own
\* result and rewrite steps and its own substitution in the filter, also
\* when an earlier identical occurrence was substituted before it.
C17_EachOccurrenceSubstituted ==
  Returned =>
    \A i, j \in DOMAIN outcome :
      SameClause(i, j) =>
        /\ Usable(preds[j]) <=> (Resolved(j) \/ Failed(j))
        /\ Resolved(j) =>
             /\ Cardinality({k \in DOMAIN fetches : fetches[k].pred = j}) = 1
             /\ plan.steps[StepsBefore(j) + 3].kind = "rewrite"
             /\ Substituted(j)

\* C17 witness: a filter with the same clause twice, both resolved to one
\* key, has both occurrences substituted in the committed filter
C17_Witness ==
  /\ Returned
  /\ Len(outcome) = 2
  /\ SameClause(1, 2)
  /\ Resolved(1) /\ Resolved(2)
  /\ occ[1].by = 1 /\ occ[2].by = 2
  /\ VisibleWhere = "(assetnum=\"A100\") or (assetnum=\"A100\")"

\* the predicate's own clause in the related query
OwnClause(p) == p.field \o " " \o p.op \o " " \o DQ \o escapeWhereString(p.value) \o DQ

\* the site-scoping clause put before it
SitePrefix(siteField, site) ==
  siteField \o "=" \o DQ \o escapeWhereString(site) \o DQ \o " and "

\* C18: the filter of a prefetch is the predicate's own clause, with the site
\* clause before it exactly when a default site was passed, the relation has
\* a site field and the predicate's field is not that site field, whatever
\* the operator.
C18_SitePrefixExactlyWhenNeeded ==
  \A k \in DOMAIN fetches :
    With(preds[fetches[k].pred], LAMBDA p :
      With(Locals(p).relatedSiteField, LAMBDA siteField :
        fetches[k].where =
          IF /\ args.defaultSite # ""
             /\ siteField # ""
             /\ toLowerCase(p.field) # toLowerCase(siteField)
          THEN SitePrefix(siteField, args.defaultSite) \o OwnClause(p)
          ELSE OwnClause(p)))

\* C19: the operator of a predicate shows in the related query only.  The
\* text that a resolved predicate puts into the root filter is the
\* disjunction of equalities on the keys used, or the no-match clause when
\* there is none, which depend on the root join field and the keys alone;
\* the filter of its prefetch ends with the predicate's clause under its own
\* operator.
C19_OperatorOnlyInRelatedQuery ==
  Returned =>
    \A i \in DOMAIN outcome :
      Resolved(i) =>
        /\ \A k \in DOMAIN occ :
             occ[k].hits = <<i>> =>
               ClauseNow(k) = Replacement(outcome[i].rootJoinField, outcome[i].used)
        /\ \A f \in DOMAIN fetches :
             fetches[f].pred = i =>
               With(OwnClause(preds[i]), LAMBDA c :
                 Tail_(fetches[f].where, Len(fetches[f].where) - Len(c) + 1) = c)

\* the prefetch of predicate i returned more keys than its maxKeys
OverMaxKeys(i) == Resolved(i) /\ Len(outcome[i].returned) > outcome[i].maxKeys

\* C20: the truncated flag of the plan is true exactly when the prefetch of
\* some predicate of the call returned more keys than that predicate's
\* maxKeys, and once true it stays true to the end of the call.
C20_TruncatedIffOverMaxKeys ==
  /\ [](plan.truncated <=> \E i \in DOMAIN outcome : OverMaxKeys(i))
  /\ [][plan.truncated => plan'.truncated]_vars

\* C20 witness: a call has returned with the flag set by its first predicate,
\* the second one having returned no more keys than its maxKeys
C20_Witness ==
  /\ Returned
  /\ plan.truncated
  /\ Len(outcome) = 2
  /\ OverMaxKeys(1)
  /\ Resolved(2) /\ ~OverMaxKeys(2)
  /\ Len(outcome[2].returned) = 1

\* the double quotes of s that have no backslash before them
UnescapedQuotes(s) ==
  {i \in 1..Len(s) : Ch(s, i) = DQ /\ (i = 1 \/ Ch(s, i - 1) # "\\")}

\* the filter of request k begins with the site clause
HasSitePrefix(k) ==
  With(SitePrefix(Locals(preds[fetches[k].pred]).relatedSiteField, args.defaultSite),
       LAMBDA pre : args.defaultSite # "" /\ Peek(fetches[k].where, 1, Len(pre)) = pre)

\* C21: in the filter of a prefetch the only double quotes without a backslash
\* before them are the two that delimit the literal (and the two of the site
\* clause when there is one), whatever double quotes the value holds; and in
\* the text built for the root filter they are the two delimiters of each key
\* (of the no-match literal when there is no key).
C21_QuotesEscaped ==
  /\ \A k \in DOMAIN fetches :
       Cardinality(UnescapedQuotes(fetches[k].where)) = IF HasSitePrefix(k) THEN 4 ELSE 2
  /\ \A i \in DOMAIN outcome :
       Resolved(i) =>
         Cardinality(UnescapedQuotes(plan.steps[StepsBefore(i) + 3].replacedWith))
           = 2 * (IF Len(outcome[i].used) = 0 THEN 1 ELSE Len(outcome[i].used))

\* the predicates that have steps in the plan: the settled ones that were
\* prefetched, and the one being prefetched
Announced(i) ==
  \/ Resolved(i)
  \/ Failed(i)
  \/ i = idx /\ pc \in {"prefetch", "await"}

\* C22: the steps of the plan are those of the predicates in their order in
\* the filter, those of one predicate side by side: a prefetch step, then,
\* when the prefetch resolved, a prefetch_result and a rewrite step.  A
\* rewrite step comes right after a prefetch_result step of the same relation
\* and a prefetch_result step right after a prefetch step of the same
\* relation.
C22_StepsInPredicateOrder ==
  /\ \A k \in DOMAIN plan.steps :
       /\ plan.steps[k].kind \in {"prefetch", "prefetch_result", "rewrite"}
       /\ plan.steps[k].kind = "rewrite" =>
            /\ k > 1
            /\ plan.steps[k - 1].kind = "prefetch_result"
            /\ plan.steps[k - 1].relationship = plan.steps[k].relationship
       /\ plan.steps[k].kind = "prefetch_result" =>
            /\ k > 1
            /\ plan.steps[k - 1].kind = "prefetch"
            /\ plan.steps[k - 1].relationship = plan.steps[k].relationship
            /\ k < Len(plan.steps)
            /\ plan.steps[k + 1].kind = "rewrite"
  /\ Len(plan.steps) = StepsBefore(Len(outcome) + 1)
                         + Cardinality({i \in DOMAIN outcome : Announced(i) /\ ~Resolved(i) /\ ~Failed(i)})
  /\ \A i \in DOMAIN outcome :
       \A n \in 1..(IF Resolved(i) THEN 3 ELSE IF Announced(i) THEN 1 ELSE 0) :
         /\ plan.steps[StepsBefore(i) + n].relationship = preds[i].rel
         /\ plan.steps[StepsBefore(i) + n].kind
              = IF n = 1 THEN "prefetch" ELSE IF n = 2 THEN "prefetch_result" ELSE "rewrite"

\* C22 witness: a returned plan holds the prefetch step of a failed first
\* predicate and then the three steps of a resolved second one
C22_Witness ==
  /\ Returned
  /\ Len(outcome) = 2
  /\ Failed(1) /\ Resolved(2)
  /\ Len(plan.steps) = 4
  /\ plan.steps[4].kind = "rewrite"

\* predicate i has an entry that lacks relatedOs, rootJoinField or
\* relatedKeyField
Unusable(i) == outcome[i].kind = "unusable"

\* C23: a predicate whose entry has an empty or blank relatedOs,
\* rootJoinField or relatedKeyField is passed over in silence: no request
\* goes to the transport for it, a call in which it is the only kind of
\* predicate returns the plan it began with (mode "none", no step, no
\* error), and its clause is in the committed filter as it was written.
C23_UnusableEntrySkipped ==
  Returned =>
    /\ \A i \in DOMAIN outcome :
         Unusable(i) =>
           /\ \A k \in DOMAIN fetches : fetches[k].pred # i
           /\ occ[i].by = 0
           /\ ClauseNow(i) = occ[i].text
    /\ (outcome # <<>> /\ \A i \in DOMAIN outcome : Unusable(i)) =>
         /\ plan.mode = "none"
         /\ plan.steps = <<>>
         /\ plan.errors = <<>>
         /\ params = args.params

\* C24: the mode of a returned plan is "error" when an exception reached the
\* outer catch and only then; otherwise it is "prefetch" when a prefetch was
\* announced, also when every prefetch failed, and "none" when none was.
C24_ModeOfReturnedPlan ==
  Returned =>
    plan.mode = IF BaseUrlThrew THEN "error"
                ELSE IF \E k \in DOMAIN plan.steps : plan.steps[k].kind = "prefetch"
                     THEN "prefetch"
                ELSE "none"

\* C24 witness: a call has returned the mode "prefetch" after the prefetches
\* of both its predicates failed
C24_Witness ==
  /\ Returned
  /\ Len(outcome) = 2
  /\ Failed(1) /\ Failed(2)
  /\ Len(plan.errors) = 2
  /\ plan.mode = "prefetch"

\* the positions of the steps of one kind
StepsOfKind(kind) == {k \in DOMAIN plan.steps : plan.steps[k].kind = kind}

\* the predicates whose request was never handed to the transport because
\* the auth-header provider threw while it was built
RequestNotBuilt == {i \in DOMAIN outcome : Failed(i) /\ outcome[i].message = "no credentials"}

\* what holds of the step counts of a plan returned without an exception
\* reaching the outer catch, the transport count left aside
StepAccounting ==
  /\ Cardinality(StepsOfKind("prefetch"))
       = Cardinality(StepsOfKind("prefetch_result")) + Len(plan.errors)
  /\ Cardinality(StepsOfKind("rewrite")) = Cardinality(StepsOfKind("prefetch_result"))
  /\ \A k \in StepsOfKind("prefetch_result") :
       plan.steps[k].keysUsed
         = IF plan.steps[k].keysReturned < plan.steps[k - 1].maxKeys
           THEN plan.steps[k].keysReturned
           ELSE plan.steps[k - 1].maxKeys

\* C25 as stated: in a plan returned without a planner-level exception the
\* transport was invoked as many times as there are prefetch steps, the
\* prefetch steps are as many as the prefetch_result steps and the errors
\* together, the rewrite steps as many as the prefetch_result steps, and each
\* prefetch_result has keysUsed = min(keysReturned, maxKeys).
C25_TransportCallPerPrefetchStep ==
  (Returned /\ plan.mode # "error") =>
    /\ Len(fetches) = Cardinality(StepsOfKind("prefetch"))
    /\ StepAccounting

\* C25: in a plan returned without a planner-level exception the transport
\* was invoked once for each prefetch step but those whose request could not
\* be built because the auth-header provider threw, which have their entry
\* in the errors; the other counts are as stated.
C25_PlanAccounting ==
  (Returned /\ plan.mode # "error") =>
    /\ Len(fetches) = Cardinality(StepsOfKind("prefetch")) - Cardinality(RequestNotBuilt)
    /\ Len(fetches) <= Cardinality(StepsOfKind("prefetch"))
    /\ Cardinality(RequestNotBuilt) <= Len(plan.errors)
    /\ StepAccounting

\* C25 witness: a call has returned with two prefetch steps and one transport
\* invocation: the request of the first predicate was not built, the second
\* resolved with more keys than its maxKeys
C25_Witness ==
  /\ Returned
  /\ plan.mode = "prefetch"
  /\ Len(outcome) = 2
  /\ RequestNotBuilt = {1}
  /\ OverMaxKeys(2)
  /\ Len(fetches) = 1
  /\ Cardinality(StepsOfKind("prefetch")) = 2

(***************************************************************************)
(* ConceptsPage, lines 141-212: load(), the effect on tenantId, save() and *)
(* the buttons of lines 214-276.                                           *)
(***************************************************************************)

\* the most calls of load() that await their responses at one time
MaxInFlight == 2

\* lines 153-154 and 156-159: load() of a render for tenant t sets loading,
\* clears the error and sends its two GETs; bySave marks the call of line 205
StartLoad(t, bySave) ==
  /\ Len(loads) < MaxInFlight
  /\ loading' = TRUE
  /\ error' = ""
  /\ loads' = Append(loads, [tenant |-> t, bySave |-> bySave])

\* the sequence q without its k-th member
Without(q, k) == SubSeq(q, 1, k - 1) \o SubSeq(q, k + 1, Len(q))

\* lines 171-173, and 209-211 when the load was awaited by save(): the
\* finally blocks
EndLoad(k) ==
  /\ loading' = FALSE
  /\ saving' = IF loads[k].bySave THEN FALSE ELSE saving
  /\ loads' = Without(loads, k)

\* lines 45-71 and 176-180: the URL names another tenant, the page renders
\* again and the effect calls the load() of that render
TenantChange ==
  \E t \in Tenants \ {tenantId} :
    /\ tenantId' = t
    /\ StartLoad(t, FALSE)
    /\ UNCHANGED <<saving, concepts, tables, puts, stored>>

\* line 222: the Refresh button, disabled while loading or saving
Refresh ==
  /\ ~loading /\ ~saving
  /\ StartLoad(tenantId, FALSE)
  /\ UNCHANGED <<tenantId, saving, concepts, tables, puts, stored>>

\* lines 160-168: both responses of the k-th load are ok, and its data is
\* put on the page whatever the tenant of the page is now
LoadSucceeds ==
  \E k \in DOMAIN loads :
    /\ concepts' = [tenant |-> loads[k].tenant]
    /\ tables' = [tenant |-> loads[k].tenant, edited |-> stored[loads[k].tenant]]
    /\ EndLoad(k)
    /\ UNCHANGED <<tenantId, error, puts, stored>>

\* lines 160-161 and 169-170: a response of the k-th load is not ok
LoadFails ==
  \E k \in DOMAIN loads :
    /\ error' = "Failed to load"
    /\ EndLoad(k)
    /\ UNCHANGED <<tenantId, concepts, tables, puts, stored>>

\* lines 244-272: the tables are shown when loading is false, and a cell of
\* theirs is edited
EditTable ==
  /\ ~loading
  /\ tables' = [tables EXCEPT !.edited = ~tables.edited]
  /\ UNCHANGED <<tenantId, loading, saving, error, concepts, loads, puts, stored>>

\* lines 182-199 and line 225: the Save button, disabled while loading or
\* saving, sends the tables of the page under the tenant of the render
Save ==
  /\ ~loading /\ ~saving
  /\ saving' = TRUE
  /\ error' = ""
  /\ puts' = Append(puts, [tenant |-> tenantId, edited |-> tables.edited])
  /\ UNCHANGED <<tenantId, loading, concepts, tables, loads, stored>>

\* lines 200-205: the PUT is ok, the server holds the tables sent, and
\* save() awaits the load() of its own render
PutSucceeds ==
  /\ puts # <<>>
  /\ stored' = [stored EXCEPT ![puts[1].tenant] = puts[1].edited]
  /\ puts' = Tail(puts)
  /\ StartLoad(puts[1].tenant, TRUE)
  /\ UNCHANGED <<tenantId, saving, concepts, tables>>

\* lines 204 and 206-211: the PUT is not ok
PutFails ==
  /\ puts # <<>>
  /\ puts' = Tail(puts)
  /\ error' = "Save failed"
  /\ saving' = FALSE
  /\ UNCHANGED <<tenantId, loading, concepts, tables, loads, stored>>

PageNext ==
  \/ TenantChange /\ UNCHANGED <<vars, state, errBox, infoBox, requests, last>>
  \/ Refresh /\ UNCHANGED <<vars, state, errBox, infoBox, requests, last>>
  \/ LoadSucceeds /\ UNCHANGED <<vars, state, errBox, infoBox, requests, last>>
  \/ LoadFails /\ UNCHANGED <<vars, state, errBox, infoBox, requests, last>>
  \/ EditTable /\ UNCHANGED <<vars, state, errBox, infoBox, requests, last>>
  \/ Save /\ UNCHANGED <<vars, state, errBox, infoBox, requests, last>>
  \/ PutSucceeds /\ UNCHANGED <<vars, state, errBox, infoBox, requests, last>>
  \/ PutFails /\ UNCHANGED <<vars, state, errBox, infoBox, requests, last>>

PageSpec == InitUi /\ [][PageNext]_<<vars, uiVars>>

\* C26: loading is true whenever a load is in flight, and once no load and
\* no save is in flight and no error is shown, the concepts and the override
\* tables on the page are those fetched for the tenant of the page.
C26_SettlesOnCurrentTenant ==
  /\ loads # <<>> => loading
  /\ (loads = <<>> /\ puts = <<>> /\ error = "") =>
       /\ concepts.tenant = tenantId
       /\ tables.tenant = tenantId

(***************************************************************************)
(* The relationships admin overlay, lines 676-836: load(), validate(),     *)
(* save() and the listeners of the table.  A row is held with the five     *)
(* fields validate() reads; the tenant input, which only names the file    *)
(* the requests go to, is left out.                                        *)
(***************************************************************************)

\* the most rows the table is followed with
MaxRows == 2

\* the most requests that await their responses at one time
MaxPending == 2

\* the lists a GET may answer with: the files are edited by hand as well, so
\* a row of theirs may lack a field
ServerLists ==
  LET asset == [rootOs |-> "mxapiwo", alias |-> "asset", relatedOs |-> "mxapiasset",
                rootJoinField |-> "assetnum", relatedKeyField |-> "assetnum"]
  IN {<<>>, <<asset>>, <<asset, [asset EXCEPT !.alias = "parent"]>>,
      <<[asset EXCEPT !.rootOs = ""]>>, <<[asset EXCEPT !.relatedOs = ""]>>,
      <<[asset EXCEPT !.rootJoinField = ""]>>, <<[asset EXCEPT !.relatedKeyField = ""]>>}

\* faulty variant: the rows are checked one by one only
validateRows(items) ==
  IF \E i \in DOMAIN items :
       \E f \in {"rootOs", "alias", "relatedOs", "rootJoinField", "relatedKeyField"} :
         items[i][f] = ""
  THEN "Missing required fields"
  ELSE ""

\* lines 794-806: the message validate() throws, "" when it returns
validate(items) ==
  LET bad == {i \in DOMAIN items :
                \/ items[i].rootOs = ""
                \/ items[i].alias = ""
                \/ items[i].relatedOs = ""
                \/ items[i].rootJoinField = ""
                \/ items[i].relatedKeyField = ""}
      key(i) == items[i].rootOs \o "::" \o items[i].alias
      seen(i) == {key(j) : j \in 1..(i - 1)}
  IN IF bad # {} THEN "Missing required fields"
     ELSE IF \E i \in DOMAIN items : key(i) \in seen(i) THEN "Duplicate rootOs+alias"
     ELSE ""

\* lines 781-785: load() hides both boxes and sends its GET; pending is the
\* requests that stay in flight
load(pending, bySave) ==
  /\ Len(pending) < MaxPending
  /\ errBox' = ""
  /\ infoBox' = ""
  /\ requests' = Append(pending, [kind |-> "get", bySave |-> bySave])

\* line 830: another scope is chosen in the select
SelectScope ==
  \E s \in {"tenant", "defaults", "effective"} \ {state.scope} :
    /\ state' = [state EXCEPT !.scope = s]
    /\ last' = "other"
    /\ UNCHANGED <<errBox, infoBox, requests>>

\* line 700: the Reload button
Reload ==
  /\ load(requests, FALSE)
  /\ last' = "other"
  /\ UNCHANGED state

\* lines 786-789: the GET of the k-th request is answered with a list
GetSucceeds ==
  \E k \in DOMAIN requests : \E list \in ServerLists :
    /\ requests[k].kind = "get"
    /\ state' = [state EXCEPT !.items = list]
    /\ infoBox' = "Loaded"
    /\ requests' = Without(requests, k)
    /\ last' = "other"
    /\ UNCHANGED errBox

\* lines 653-660 and 790-792: the GET of the k-th request is not ok
GetFails ==
  \E k \in DOMAIN requests :
    /\ requests[k].kind = "get"
    /\ errBox' = "GET failed"
    /\ requests' = Without(requests, k)
    /\ last' = "other"
    /\ UNCHANGED <<state, infoBox>>

\* lines 772-775: the Add relationship button pushes an empty row
AddRow ==
  /\ Len(state.items) < MaxRows
  /\ state' = [state EXCEPT !.items = Append(@,
       [rootOs |-> "", alias |-> "", relatedOs |-> "", rootJoinField |-> "",
        relatedKeyField |-> ""])]
  /\ last' = "other"
  /\ UNCHANGED <<errBox, infoBox, requests>>

\* lines 751-755: the input listener of a cell; the alias cell is the one
\* typed into
EditField ==
  \E i \in DOMAIN state.items : \E f \in {"alias"} :
    \E v \in {"", "asset"} \ {state.items[i][f]} :
      /\ state' = [state EXCEPT !.items[i][f] = v]
      /\ last' = "other"
      /\ UNCHANGED <<errBox, infoBox, requests>>

\* line 748: the Delete button of a row
DeleteRow ==
  \E i \in DOMAIN state.items :
    /\ state' = [state EXCEPT !.items = Without(@, i)]
    /\ last' = "other"
    /\ UNCHANGED <<errBox, infoBox, requests>>

\* lines 808-818: the Save button, up to the await of the PUT
SaveRelationships ==
  /\ last' = "save"
  /\ infoBox' = ""
  /\ UNCHANGED state
  /\ IF state.scope = "effective"
     THEN errBox' = "Effective scope is read-only" /\ UNCHANGED requests
     ELSE IF validate(state.items) # ""
     THEN errBox' = validate(state.items) /\ UNCHANGED requests
     ELSE /\ Len(requests) < MaxPending
          /\ errBox' = ""
          /\ requests' = Append(requests, [kind |-> "put", bySave |-> TRUE])

\* lines 662-674 and 818-820: the PUT of the k-th request is ok; save() shows
\* its message and calls load(), which hides it
PutOk ==
  \E k \in DOMAIN requests :
    /\ requests[k].kind = "put"
    /\ load(Without(requests, k), TRUE)
    /\ last' = "put-ok"
    /\ UNCHANGED state

\* lines 662-674 and 821-823: the PUT of the k-th request is not ok
PutNotOk ==
  \E k \in DOMAIN requests :
    /\ requests[k].kind = "put"
    /\ errBox' = "PUT failed"
    /\ requests' = Without(requests, k)
    /\ last' = "other"
    /\ UNCHANGED <<state, infoBox>>

AdminNext ==
  \/ SelectScope /\ UNCHANGED <<vars, tenantId, loading, saving, error, concepts, tables, loads, puts, stored>>
  \/ Reload /\ UNCHANGED <<vars, tenantId, loading, saving, error, concepts, tables, loads, puts, stored>>
  \/ GetSucceeds /\ UNCHANGED <<vars, tenantId, loading, saving, error, concepts, tables, loads, puts, stored>>
  \/ GetFails /\ UNCHANGED <<vars, tenantId, loading, saving, error, concepts, tables, loads, puts, stored>>
  \/ AddRow /\ UNCHANGED <<vars, tenantId, loading, saving, error, concepts, tables, loads, puts, stored>>
  \/ EditField /\ UNCHANGED <<vars, tenantId, loading, saving, error, concepts, tables, loads, puts, stored>>
  \/ DeleteRow /\ UNCHANGED <<vars, tenantId, loading, saving, error, concepts, tables, loads, puts, stored>>
  \/ SaveRelationships /\ UNCHANGED <<vars, tenantId, loading, saving, error, concepts, tables, loads, puts, stored>>
  \/ PutOk /\ UNCHANGED <<vars, tenantId, loading, saving, error, concepts, tables, loads, puts, stored>>
  \/ PutNotOk /\ UNCHANGED <<vars, tenantId, loading, saving, error, concepts, tables, loads, puts, stored>>

AdminSpec == InitUi /\ [][AdminNext]_<<vars, uiVars>>

\* C27: a save under the scope "effective", or of a list in which a row lacks
\* rootOs, alias, relatedOs, rootJoinField or relatedKeyField, or in which two
\* rows have the same rootOs and the same alias, sends no request, shows an
\* error message and leaves the list as it was; and a load is started by
\* save() only in the step in which a PUT of its was answered ok.
C27_RejectedSaveSendsNothing ==
  [][LET items == state.items
         lacks == \E i \in DOMAIN items :
                    \E f \in {"rootOs", "alias", "relatedOs", "rootJoinField",
                              "relatedKeyField"} : items[i][f] = ""
         shares == \E i, j \in DOMAIN items :
                     /\ i < j
                     /\ items[i].rootOs = items[j].rootOs
                     /\ items[i].alias = items[j].alias
         reloads(q) == Cardinality({k \in DOMAIN q : q[k].kind = "get" /\ q[k].bySave})
     IN /\ (last' = "save" /\ (state'.scope = "effective" \/ lacks \/ shares)) =>
             /\ requests' = requests
             /\ errBox' # ""
             /\ state'.items = items
        /\ reloads(requests') > reloads(requests) =>
             /\ last' = "put-ok"
             /\ \E k \in DOMAIN requests : requests[k].kind = "put"
    ]_<<vars, uiVars>>

\* C27 witness: a save of two rows with the same rootOs and alias was turned
\* down while the load of an earlier, successful save was still awaited
C27_Witness ==
  /\ last = "save"
  /\ errBox = "Duplicate rootOs+alias"
  /\ Len(state.items) = 2
  /\ state.scope # "effective"
  /\ requests = <<[kind |-> "get", bySave |-> TRUE]>>

====
